---- MODULE Spec2Model ----
(***************************************************************************)
(* Expression nodes of the datatable core (c/expr/base_expr.cc): the type  *)
(* rule tables, the expression node classes with resolve /                 *)
(* get_groupby_mode / evaluate_eager / get_negated_expr, and the           *)
(* py::base_expr factory that builds them.                                 *)
(***************************************************************************)
EXTENDS Integers, Sequences, FiniteSets, TLC

VARIABLES heap, pyexpr, wf, cached_wf, ret

vars == <<heap, pyexpr, wf, cached_wf, ret>>

\* ------------------------------------------------------------------ bounds
\* Size of the node heap (number of expression nodes that may be allocated).
MaxNodes == 3
\* Widest frame of the column-reference workframes.
MaxCols == 2
\* Largest number of groups of a grouping, and largest size of one group.
MaxGroups == 3
MaxGroupSize == 4

\* ------------------------------------------------------------------ stypes
\* The SType enumeration in its declared order (the numeric value of an
\* stype is its position here; std::max on stypes is max of positions).
STypes ==
  <<"BOOL", "INT8", "INT16", "INT32", "INT64", "FLOAT32", "FLOAT64",
    "STR32", "STR64", "OBJECT">>

STypeSet == {STypes[i] : i \in 1..Len(STypes)}

STypeCode(st) == CHOOSE i \in 1..Len(STypes) : STypes[i] = st

\* std::max(st1, st2) on the enumeration.
STypeMax(st1, st2) == IF STypeCode(st1) >= STypeCode(st2) THEN st1 ELSE st2

bool8 == "BOOL"
int8 == "INT8"
int16 == "INT16"
int32 == "INT32"
int64 == "INT64"
flt32 == "FLOAT32"
flt64 == "FLOAT64"
str32 == "STR32"
str64 == "STR64"
obj64 == "OBJECT"

integer_stypes == {int8, int16, int32, int64}
numeric_stypes == {bool8, int8, int16, int32, int64, flt32, flt64}
string_types == {str32, str64}
all_stypes == {bool8, int8, int16, int32, int64, flt32, flt64, str32, str64}

\* ------------------------------------------------------------------ binary operators
\* biop codes, in the order binop_names lists them (binop_names.resize(18):
\* codes 1..17).
Biops ==
  <<"PLUS", "MINUS", "MULTIPLY", "DIVIDE", "INT_DIVIDE", "POWER", "MODULO",
    "LOGICAL_AND", "LOGICAL_OR", "LEFT_SHIFT", "RIGHT_SHIFT",
    "REL_EQ", "REL_NE", "REL_GT", "REL_LT", "REL_GE", "REL_LE">>

BiopCodes == 1..Len(Biops)

biop(name) == CHOOSE c \in BiopCodes : Biops[c] = name

\* static size_t id(biop opcode, SType st1, SType st2)
id_binop(opcode, st1, st2) ==
  opcode * 65536 + STypeCode(st1) * 256 + STypeCode(st2)

\* The assignments of init_binops, as <<key, stype>> pairs.
binop_entries ==
  UNION {
    { <<id_binop(biop("PLUS"), st1, st2), STypeMax(st1, st2)>>,
      <<id_binop(biop("MINUS"), st1, st2), STypeMax(st1, st2)>>,
      <<id_binop(biop("MULTIPLY"), st1, st2), STypeMax(st1, st2)>>,
      <<id_binop(biop("POWER"), st1, st2), STypeMax(st1, st2)>>,
      <<id_binop(biop("DIVIDE"), st1, st2), flt64>>,
      <<id_binop(biop("REL_EQ"), st1, st2), bool8>>,
      <<id_binop(biop("REL_NE"), st1, st2), bool8>>,
      <<id_binop(biop("REL_LT"), st1, st2), bool8>>,
      <<id_binop(biop("REL_GT"), st1, st2), bool8>>,
      <<id_binop(biop("REL_LE"), st1, st2), bool8>>,
      <<id_binop(biop("REL_GE"), st1, st2), bool8>> }
    : <<st1, st2>> \in numeric_stypes \X numeric_stypes }
  \cup
  UNION {
    { <<id_binop(biop("INT_DIVIDE"), st1, st2), STypeMax(st1, st2)>>,
      <<id_binop(biop("MODULO"), st1, st2), STypeMax(st1, st2)>>,
      <<id_binop(biop("LEFT_SHIFT"), st1, st2), STypeMax(st1, st2)>>,
      <<id_binop(biop("RIGHT_SHIFT"), st1, st2), STypeMax(st1, st2)>> }
    : <<st1, st2>> \in integer_stypes \X integer_stypes }
  \cup
  UNION {
    { <<id_binop(biop("REL_EQ"), st1, st2), bool8>>,
      <<id_binop(biop("REL_NE"), st1, st2), bool8>> }
    : <<st1, st2>> \in string_types \X string_types }
  \cup
  { <<id_binop(biop("LOGICAL_AND"), bool8, bool8), bool8>>,
    <<id_binop(biop("LOGICAL_OR"), bool8, bool8), bool8>> }

\* A mis-built table: the promotion takes the left operand's stype.
binop_rules_left ==
  [k \in {e[1] : e \in binop_entries} |->
     LET e == CHOOSE x \in binop_entries : x[1] = k
         op == k \div 65536
         s1 == STypes[(k % 65536) \div 256]
     IN IF op \in {biop("REL_EQ"), biop("REL_NE"), biop("DIVIDE")}
        THEN e[2] ELSE s1]

\* A mis-built table: the string comparisons are left out.
binop_rules_nostr ==
  LET es == {e \in binop_entries :
               STypes[(e[1] % 65536) \div 256] \notin string_types}
  IN [k \in {e[1] : e \in es} |-> (CHOOSE x \in es : x[1] = k)[2]]

\* A mis-built table: INT_DIVIDE and MODULO are filled in by the loop over the
\* numeric stypes.
binop_rules_numdiv ==
  LET es == binop_entries \cup
            UNION {
              { <<id_binop(biop("INT_DIVIDE"), st1, st2), STypeMax(st1, st2)>>,
                <<id_binop(biop("MODULO"), st1, st2), STypeMax(st1, st2)>> }
              : <<st1, st2>> \in numeric_stypes \X numeric_stypes }
  IN [k \in {e[1] : e \in es} |-> (CHOOSE x \in es : x[1] = k)[2]]

\* static std::unordered_map<size_t, SType> binop_rules, after init_binops.
binop_rules ==
  [k \in {e[1] : e \in binop_entries} |->
     (CHOOSE x \in binop_entries : x[1] = k)[2]]

\* ------------------------------------------------------------------ unary operators
\* unop codes, in the order unop_names lists them (LEN is the largest).
Unops ==
  <<"ISNA", "MINUS", "PLUS", "INVERT", "ABS", "EXP", "LOGE", "LOG10", "LEN">>

UnopCodes == 1..Len(Unops)

unop(name) == CHOOSE c \in UnopCodes : Unops[c] = name

\* static size_t id(unop opcode, SType st1)
id_unop(opcode, st1) == opcode * 256 + STypeCode(st1)

\* The loops of init_unops.
unop_loop_entries ==
  { <<id_unop(unop("ISNA"), st), bool8>> : st \in all_stypes }
  \cup
  { <<id_unop(unop("INVERT"), st), st>> : st \in integer_stypes }
  \cup
  UNION {
    { <<id_unop(unop("MINUS"), st), st>>,
      <<id_unop(unop("PLUS"), st), st>>,
      <<id_unop(unop("ABS"), st), st>>,
      <<id_unop(unop("EXP"), st), flt64>>,
      <<id_unop(unop("LOGE"), st), flt64>>,
      <<id_unop(unop("LOG10"), st), flt64>> }
    : st \in numeric_stypes }

\* The single assignments that follow the loops (they overwrite).
unop_single_entries ==
  { <<id_unop(unop("MINUS"), bool8), int8>>,
    <<id_unop(unop("PLUS"), bool8), int8>>,
    <<id_unop(unop("ABS"), bool8), int8>>,
    <<id_unop(unop("INVERT"), bool8), bool8>>,
    <<id_unop(unop("LEN"), str32), int32>>,
    <<id_unop(unop("LEN"), str64), int64>> }

unop_entries ==
  { e \in unop_loop_entries :
      e[1] \notin {x[1] : x \in unop_single_entries} }
  \cup unop_single_entries

\* static std::unordered_map<size_t, SType> unop_rules, after init_unops.
unop_rules ==
  [k \in {e[1] : e \in unop_entries} |->
     (CHOOSE x \in unop_entries : x[1] = k)[2]]

\* ------------------------------------------------------------------ frames and workframes
\* Column names of a frame, by position.
ColNames == <<"A", "B", "C", "D", "E", "F", "G", "H", "I", "J">>

\* DataTable with ncols columns: column i (from 0) has name ColNames[i + 1]
\* and the stype at position i + 1 of the enumeration (cyclically).
Frame(ncols) ==
  [i \in 1..ncols |->
     [name |-> ColNames[i], stype |-> STypes[((i - 1) % Len(STypes)) + 1]]]

\* workframe: the joined frames, the groupby (its offsets and the indices of
\* its group columns), the number of rows, and whether frames carry a rowindex.
Workframe(frames, has_groupby, offsets, group_cols, nrows, ri) ==
  [frames |-> frames, has_groupby |-> has_groupby, offsets |-> offsets,
   group_cols |-> group_cols, nrows |-> nrows, ri |-> ri]

\* wf.nframes()
nframes(w) == Len(w.frames)

\* wf.get_datatable(frame_id)
get_datatable(w, frame_id) == w.frames[frame_id + 1]

\* dt->ncols
ncols(dt) == Len(dt)

\* dt->xcolindex(name): the index of the column called name, or ValueError.
xcolindex(dt, name) ==
  IF \E i \in 1..Len(dt) : dt[i].name = name
  THEN [err |-> "none", col |-> (CHOOSE i \in 1..Len(dt) : dt[i].name = name) - 1]
  ELSE [err |-> "ValueError", col |-> 0]

\* Groupby offsets: o[1] = 0, then one boundary per group, groups non-empty.
RECURSIVE OffsetSeqs(_)
OffsetSeqs(ng) ==
  IF ng = 0 THEN {<<0>>}
  ELSE {Append(o, o[Len(o)] + d) : o \in OffsetSeqs(ng - 1), d \in 1..MaxGroupSize}

\* ------------------------------------------------------------------ python objects
\* A py::robj argument: an int, a string, None, or a py::base_expr wrapper
\* (i is then the wrapper's index in pyexpr).
PyInt(i) == [t |-> "int", i |-> i, s |-> ""]
PyStr(s) == [t |-> "str", i |-> 0, s |-> s]
PyNone == [t |-> "none", i |-> 0, s |-> ""]
PyExpr(w) == [t |-> "expr", i |-> w, s |-> ""]

\* ------------------------------------------------------------------ expression nodes
\* size_t(-1), the largest value of the index type (at the checker's width).
NoCol == 2147483647

\* Heap cell holding no node.
FreeNode ==
  [kind |-> "free", op |-> 0, lhs |-> 0, rhs |-> 0, arg |-> 0,
   frame_id |-> 0, sel |-> PyNone, col_id |-> NoCol, stype |-> ""]

\* expr_column::expr_column(dfid, col)
expr_column(dfid, col) ==
  [FreeNode EXCEPT !.kind = "column", !.frame_id = dfid, !.sel = col,
                   !.col_id = NoCol]

\* expr_binaryop::expr_binaryop(opcode, l, r)
expr_binaryop(opcode, l, r) ==
  [FreeNode EXCEPT !.kind = "binaryop", !.op = opcode, !.lhs = l, !.rhs = r]

\* Column::from_pylist on a one-element list: the stype detected for the value.
from_pylist_stype(v) ==
  CASE v.t = "int" -> int32
    [] v.t = "str" -> str32
    [] v.t = "none" -> bool8
    [] OTHER -> obj64

\* expr_literal::expr_literal(v)
expr_literal(v) ==
  [FreeNode EXCEPT !.kind = "literal", !.stype = from_pylist_stype(v)]

\* expr_unaryop::expr_unaryop(opcode, a)
expr_unaryop(opcode, a) ==
  [FreeNode EXCEPT !.kind = "unaryop", !.op = opcode, !.arg = a]

\* expr_cast::expr_cast(a, s)
expr_cast(a, s) ==
  [FreeNode EXCEPT !.kind = "cast", !.arg = a, !.stype = s]

\* expr_reduce_nullary::expr_reduce_nullary(op)
expr_reduce_nullary(op) ==
  [FreeNode EXCEPT !.kind = "reduce_nullary", !.op = op]

\* expr::expr_reduce(arg, op), defined outside this file.
expr_reduce(a, op) ==
  [FreeNode EXCEPT !.kind = "reduce", !.op = op, !.arg = a]

\* dt::expr_string_fn(op, arg, params), defined outside this file.
expr_string_fn(op, a) ==
  [FreeNode EXCEPT !.kind = "string_fn", !.op = op, !.arg = a]

NodeIds == 1..MaxNodes

\* The children a node owns (0 is an empty pexpr).
Children(nd) ==
  CASE nd.kind = "binaryop" -> {nd.lhs, nd.rhs} \ {0}
    [] nd.kind \in {"unaryop", "cast", "reduce", "string_fn"} -> {nd.arg} \ {0}
    [] OTHER -> {}

\* Nodes owned by no other node: held by a wrapper or by a caller.
Roots(h) ==
  {n \in NodeIds : h[n].kind # "free" /\ \A m \in NodeIds : n \notin Children(h[m])}

RECURSIVE Subtree(_, _)
Subtree(h, n) ==
  IF n = 0 THEN {} ELSE {n} \cup UNION {Subtree(h, c) : c \in Children(h[n])}

\* ------------------------------------------------------------------ expr_column
\* expr_column::get_col_index with the upper range check on an integer
\* selector left out.
get_col_index_unchecked(nd, w) ==
  IF nd.col_id = NoCol
  THEN IF nd.frame_id >= nframes(w)
       THEN [err |-> "ValueError", msg |-> "frame", col |-> NoCol]
       ELSE LET dt == get_datatable(w, nd.frame_id)
                incols == ncols(dt)
            IN CASE nd.sel.t = "int" ->
                      IF nd.sel.i < -incols
                      THEN [err |-> "ValueError", msg |-> "index", col |-> NoCol]
                      ELSE [err |-> "none", msg |-> "",
                            col |-> IF nd.sel.i < 0 THEN nd.sel.i + incols
                                    ELSE nd.sel.i]
                 [] nd.sel.t = "str" ->
                      LET x == xcolindex(dt, nd.sel.s)
                      IN IF x.err = "none" THEN [err |-> "none", msg |-> "", col |-> x.col]
                         ELSE [err |-> "ValueError", msg |-> "name", col |-> NoCol]
                 [] OTHER -> [err |-> "AssertionError", msg |-> "", col |-> NoCol]
  ELSE [err |-> "none", msg |-> "", col |-> nd.col_id]

\* expr_column::get_col_index without the memo: the selector is looked up
\* on every call.
get_col_index_nomemo(nd, w) ==
  IF nd.frame_id >= nframes(w)
  THEN [err |-> "ValueError", msg |-> "frame", col |-> nd.col_id]
  ELSE LET dt == get_datatable(w, nd.frame_id)
           incols == ncols(dt)
       IN CASE nd.sel.t = "int" ->
                 IF nd.sel.i < -incols \/ nd.sel.i >= incols
                 THEN [err |-> "ValueError", msg |-> "index", col |-> nd.col_id]
                 ELSE [err |-> "none", msg |-> "",
                       col |-> IF nd.sel.i < 0 THEN nd.sel.i + incols ELSE nd.sel.i]
            [] nd.sel.t = "str" ->
                 LET x == xcolindex(dt, nd.sel.s)
                 IN IF x.err = "none" THEN [err |-> "none", msg |-> "", col |-> x.col]
                    ELSE [err |-> "ValueError", msg |-> "name", col |-> nd.col_id]
            [] OTHER -> [err |-> "AssertionError", msg |-> "", col |-> nd.col_id]

\* expr_column::get_col_index with the negative-index adjustment outside the
\* memo's guard: it is applied again on every later call.
get_col_index_renorm(nd, w) ==
  IF nd.col_id = NoCol THEN get_col_index_nomemo(nd, w)
  ELSE IF nd.frame_id < nframes(w) /\ nd.sel.t = "int" /\ nd.sel.i < 0
  THEN [err |-> "none", msg |-> "",
        col |-> nd.col_id + ncols(get_datatable(w, nd.frame_id))]
  ELSE [err |-> "none", msg |-> "", col |-> nd.col_id]

\* expr_column::get_col_index: the outcome and the value col_id holds after
\* the call. A selector that is neither int nor string leaves col_id at
\* size_t(-1) and fails the xassert.
get_col_index(nd, w) ==
  IF nd.col_id = NoCol
  THEN IF nd.frame_id >= nframes(w)
       THEN [err |-> "ValueError", msg |-> "frame", col |-> NoCol]
       ELSE LET dt == get_datatable(w, nd.frame_id)
                incols == ncols(dt)
            IN CASE nd.sel.t = "int" ->
                      IF nd.sel.i < -incols \/ nd.sel.i >= incols
                      THEN [err |-> "ValueError", msg |-> "index", col |-> NoCol]
                      ELSE [err |-> "none", msg |-> "",
                            col |-> IF nd.sel.i < 0 THEN nd.sel.i + incols
                                    ELSE nd.sel.i]
                 [] nd.sel.t = "str" ->
                      LET x == xcolindex(dt, nd.sel.s)
                      IN IF x.err = "none" THEN [err |-> "none", msg |-> "", col |-> x.col]
                         ELSE [err |-> "ValueError", msg |-> "name", col |-> NoCol]
                 [] OTHER -> [err |-> "AssertionError", msg |-> "", col |-> NoCol]
  ELSE [err |-> "none", msg |-> "", col |-> nd.col_id]

\* Outcome of a call: the heap after it, the error raised ("none" if it
\* returned; "UB" for a null or out-of-range dereference), and the stype.
Outcome(h, err, st) == [h |-> h, err |-> err, msg |-> "", st |-> st]

\* expr_column::resolve
expr_column_resolve(h, n, w) ==
  LET g == get_col_index(h[n], w)
      h1 == [h EXCEPT ![n].col_id = g.col]
  IN IF g.err # "none" THEN [Outcome(h1, g.err, "") EXCEPT !.msg = g.msg]
     ELSE IF h[n].frame_id >= nframes(w) THEN Outcome(h1, "UB", "")
     ELSE LET dt == get_datatable(w, h[n].frame_id)
          IN IF g.col >= ncols(dt) THEN Outcome(h1, "UB", "")
             ELSE Outcome(h1, "none", dt[g.col + 1].stype)

\* expr_column::get_groupby_mode
GtoONE == 1
GtoALL == 2

\* expr_column::get_groupby_mode without the test frame_id == 0.
expr_column_get_groupby_mode_anyframe(nd, w) ==
  IF w.has_groupby /\ nd.col_id \in w.group_cols
  THEN GtoONE ELSE GtoALL

\* expr_column::get_groupby_mode
expr_column_get_groupby_mode(nd, w) ==
  IF nd.frame_id = 0 /\ w.has_groupby /\ nd.col_id \in w.group_cols
  THEN GtoONE ELSE GtoALL

\* A materialized column: its stype, the operation that made it, its data.
Col(stype, src, data) == [stype |-> stype, src |-> src, data |-> data]
NullColumn == Col("", "nullptr", <<>>)

\* expr_column::evaluate_eager: a shallow copy of column col_id of the frame,
\* under the product of the frame's rowindex if there is one.
expr_column_evaluate_eager(nd, w) ==
  IF nd.frame_id >= nframes(w) THEN [err |-> "UB", col |-> NullColumn]
  ELSE LET dt == get_datatable(w, nd.frame_id)
       IN IF nd.col_id >= ncols(dt) THEN [err |-> "UB", col |-> NullColumn]
          ELSE [err |-> "none",
                col |-> Col(dt[nd.col_id + 1].stype, "shallowcopy",
                            <<nd.frame_id, nd.col_id, IF w.ri THEN 1 ELSE 0>>)]

\* ------------------------------------------------------------------ resolve
\* binop_names.resize(18)
binop_names_size == 18

\* expr_binaryop::resolve, after both operands resolved to lhs_stype, rhs_stype.
expr_binaryop_lookup(binop_code, lhs_stype, rhs_stype) ==
  LET triple == id_binop(binop_code, lhs_stype, rhs_stype)
  IN IF triple \notin DOMAIN binop_rules
     THEN [err |-> IF binop_code < binop_names_size THEN "TypeError" ELSE "UB",
           st |-> ""]
     ELSE [err |-> "none", st |-> binop_rules[triple]]

\* expr_unaryop::resolve, after the operand resolved to arg_stype.
expr_unaryop_lookup(unop_code, arg_stype) ==
  LET op_id == id_unop(unop_code, arg_stype)
  IN IF op_id \notin DOMAIN unop_rules
     THEN [err |-> IF unop_code <= Len(Unops) THEN "TypeError" ELSE "UB",
           st |-> ""]
     ELSE [err |-> "none", st |-> unop_rules[op_id]]

\* expr_reduce_nullary::resolve
expr_reduce_nullary_resolve(w) == int64

\* base_expr::resolve, dispatched on the node's class. The operands are
\* resolved left to right; an exception leaves the heap as it was when raised.
RECURSIVE resolve(_, _, _)
resolve(h, n, w) ==
  IF n = 0 THEN Outcome(h, "UB", "")
  ELSE
  CASE h[n].kind = "column" -> expr_column_resolve(h, n, w)
    [] h[n].kind = "binaryop" ->
         LET l == resolve(h, h[n].lhs, w)
         IN IF l.err # "none" THEN l
            ELSE LET r == resolve(l.h, h[n].rhs, w)
                 IN IF r.err # "none" THEN r
                    ELSE LET x == expr_binaryop_lookup(h[n].op, l.st, r.st)
                         IN Outcome(r.h, x.err, x.st)
    [] h[n].kind = "literal" -> Outcome(h, "none", h[n].stype)
    [] h[n].kind = "unaryop" ->
         LET a == resolve(h, h[n].arg, w)
         IN IF a.err # "none" THEN a
            ELSE LET x == expr_unaryop_lookup(h[n].op, a.st)
                 IN Outcome(a.h, x.err, x.st)
    [] h[n].kind = "cast" ->
         LET a == resolve(h, h[n].arg, w)
         IN IF a.err # "none" THEN a ELSE Outcome(a.h, "none", h[n].stype)
    [] h[n].kind = "reduce_nullary" ->
         Outcome(h, "none", expr_reduce_nullary_resolve(w))
    [] OTHER -> Outcome(h, "UB", "")

\* ------------------------------------------------------------------ get_groupby_mode
\* base_expr::get_groupby_mode, dispatched on the node's class; the result
\* of expr_binaryop is std::max of the operands' modes.
RECURSIVE get_groupby_mode(_, _, _)
get_groupby_mode(h, n, w) ==
  IF n = 0 THEN [err |-> "UB", mode |-> 0]
  ELSE
  CASE h[n].kind = "column" ->
         [err |-> "none", mode |-> expr_column_get_groupby_mode(h[n], w)]
    [] h[n].kind = "binaryop" ->
         LET l == get_groupby_mode(h, h[n].lhs, w)
             r == get_groupby_mode(h, h[n].rhs, w)
         IN IF l.err # "none" THEN l
            ELSE IF r.err # "none" THEN r
            ELSE [err |-> "none",
                  mode |-> IF l.mode >= r.mode THEN l.mode ELSE r.mode]
    [] h[n].kind \in {"literal", "reduce_nullary"} ->
         [err |-> "none", mode |-> GtoONE]
    [] h[n].kind \in {"unaryop", "cast"} -> get_groupby_mode(h, h[n].arg, w)
    [] OTHER -> [err |-> "UB", mode |-> 0]

\* ------------------------------------------------------------------ evaluate_eager
\* expr::binaryop(binop_code, lhs, rhs): the kernel, defined outside this
\* file; its result has the stype the rule table gives.
expr_binaryop_kernel(binop_code, l, r) ==
  LET triple == id_binop(binop_code, l.stype, r.stype)
  IN IF triple \in DOMAIN binop_rules
     THEN [err |-> "none",
           col |-> Col(binop_rules[triple], "binaryop",
                       <<binop_code>> \o l.data \o r.data)]
     ELSE [err |-> "Error", col |-> NullColumn]

\* expr::unaryop(unop_code, arg): the kernel, defined outside this file.
expr_unaryop_kernel(unop_code, a) ==
  LET op_id == id_unop(unop_code, a.stype)
  IN IF op_id \in DOMAIN unop_rules
     THEN [err |-> "none",
           col |-> Col(unop_rules[op_id], "unaryop", <<unop_code>> \o a.data)]
     ELSE [err |-> "Error", col |-> NullColumn]

\* expr_reduce_nullary::evaluate_eager writing offsets[i] - offsets[i - 1]
\* shifted by one group (reads offsets[i], offsets[i - 1] from i = 0).
expr_reduce_nullary_evaluate_eager_shifted(nd, w) ==
  IF nd.op = 0
  THEN IF w.has_groupby
       THEN LET ng == Len(w.offsets) - 1
            IN [err |-> "none",
                col |-> Col(int32, "new_data_column",
                            [i \in 1..ng |->
                               IF i = 1 THEN w.offsets[1]
                               ELSE w.offsets[i] - w.offsets[i - 1]])]
       ELSE [err |-> "none",
             col |-> Col(int64, "new_data_column", <<w.nrows>>)]
  ELSE [err |-> "none", col |-> NullColumn]

\* expr_reduce_nullary::evaluate_eager. offsets[i] of the code is
\* w.offsets[i + 1] here (sequences start at 1).
expr_reduce_nullary_evaluate_eager(nd, w) ==
  IF nd.op = 0
  THEN IF w.has_groupby
       THEN LET ng == Len(w.offsets) - 1
            IN [err |-> "none",
                col |-> Col(int32, "new_data_column",
                            [i \in 1..ng |-> w.offsets[i + 1] - w.offsets[i]])]
       ELSE [err |-> "none",
             col |-> Col(int64, "new_data_column", <<w.nrows>>)]
  ELSE [err |-> "none", col |-> NullColumn]

\* base_expr::evaluate_eager, dispatched on the node's class.
RECURSIVE evaluate_eager(_, _, _)
evaluate_eager(h, n, w) ==
  IF n = 0 THEN [err |-> "UB", col |-> NullColumn]
  ELSE
  CASE h[n].kind = "column" -> expr_column_evaluate_eager(h[n], w)
    [] h[n].kind = "binaryop" ->
         LET l == evaluate_eager(h, h[n].lhs, w)
         IN IF l.err # "none" THEN l
            ELSE LET r == evaluate_eager(h, h[n].rhs, w)
                 IN IF r.err # "none" THEN r
                    ELSE expr_binaryop_kernel(h[n].op, l.col, r.col)
    [] h[n].kind = "literal" ->
         [err |-> "none", col |-> Col(h[n].stype, "shallowcopy", <<>>)]
    [] h[n].kind = "unaryop" ->
         LET a == evaluate_eager(h, h[n].arg, w)
         IN IF a.err # "none" THEN a ELSE expr_unaryop_kernel(h[n].op, a.col)
    [] h[n].kind = "cast" ->
         LET a == evaluate_eager(h, h[n].arg, w)
         IN IF a.err # "none" THEN a
            ELSE [err |-> "none", col |-> Col(h[n].stype, "cast", a.col.data)]
    [] h[n].kind = "reduce_nullary" -> expr_reduce_nullary_evaluate_eager(h[n], w)
    [] OTHER -> [err |-> "UB", col |-> NullColumn]

\* ------------------------------------------------------------------ negation
\* base_expr::is_negated_expr / expr_unaryop::is_negated_expr
is_negated_expr(nd) == nd.kind = "unaryop" /\ nd.op = unop("MINUS")

\* expr_unaryop::get_negated_expr returning a reference and keeping arg.
get_negated_expr_keep(h, n) ==
  IF h[n].kind = "unaryop" /\ h[n].op = unop("MINUS")
  THEN [h |-> h, res |-> h[n].arg]
  ELSE [h |-> h, res |-> 0]

\* base_expr::get_negated_expr / expr_unaryop::get_negated_expr: the pexpr
\* returned (0 is the empty pexpr) and the heap after the move.
get_negated_expr(h, n) ==
  IF h[n].kind = "unaryop" /\ h[n].op = unop("MINUS")
  THEN [h |-> [h EXCEPT ![n].arg = 0], res |-> h[n].arg]
  ELSE [h |-> h, res |-> 0]

\* ------------------------------------------------------------------ py::base_expr
\* check_args_count comparing with >= (surplus arguments pass).
check_args_count_atleast(va, n) ==
  IF Len(va) >= n THEN [err |-> "none", expected |-> 0, received |-> 0]
  ELSE [err |-> "TypeError", expected |-> n, received |-> Len(va)]

\* check_args_count: TypeError "Expected n additional arguments, but
\* received va.size()" unless va.size() == n.
check_args_count(va, n) ==
  IF Len(va) = n THEN [err |-> "none", expected |-> 0, received |-> 0]
  ELSE [err |-> "TypeError", expected |-> n, received |-> Len(va)]

\* py::base_expr::release on wrapper i: the pointer it held; it holds nullptr after.
release(px, i) == [px |-> [px EXCEPT ![i] = 0], ptr |-> px[i]]

\* to_base_expr: TypeError unless the argument is a py::base_expr, else release().
to_base_expr(px, arg) ==
  IF arg.t # "expr" THEN [err |-> "TypeError", px |-> px, ptr |-> 0]
  ELSE LET r == release(px, arg.i) IN [err |-> "none", px |-> r.px, ptr |-> r.ptr]

\* ~unique_ptr<base_expr>: the node and, recursively, the nodes it owns are deleted.
delete_expr(h, n) == [m \in NodeIds |-> IF m \in Subtree(h, n) THEN FreeNode ELSE h[m]]

\* The exprCode values handled by the switch of m__init__.
exprCodes ==
  {"COL", "BINOP", "LITERAL", "UNOP", "CAST", "UNREDUCE", "NUREDUCE", "STRINGFN"}

\* Result of m__init__: heap and wrappers after the call, the node built (0:
\* none), the error raised and the counts its message reports.
InitResult(h, px, node, chk) ==
  [h |-> h, px |-> px, node |-> node, err |-> chk.err,
   expected |-> chk.expected, received |-> chk.received]

NoError == [err |-> "none", expected |-> 0, received |-> 0]
RaiseTypeError == [err |-> "TypeError", expected |-> 0, received |-> 0]

\* new: the heap cell the node is allocated in.
NewCell(h) == CHOOSE n \in NodeIds : h[n].kind = "free" /\ \A m \in 1..(n - 1) : h[m].kind # "free"

\* The number of arguments each case of m__init__ checks for.
args_count(opcode) ==
  CASE opcode = "COL" -> 2
    [] opcode = "BINOP" -> 3
    [] opcode = "LITERAL" -> 1
    [] opcode = "UNOP" -> 2
    [] opcode = "CAST" -> 2
    [] opcode = "UNREDUCE" -> 2
    [] opcode = "NUREDUCE" -> 1
    [] opcode = "STRINGFN" -> 3
    [] OTHER -> 0

\* The node a case of m__init__ builds from its converted arguments; a and b
\* are the released subexpressions.
new_expr(opcode, va, a, b) ==
  CASE opcode = "COL" -> expr_column(va[1].i, va[2])
    [] opcode = "BINOP" -> expr_binaryop(va[1].i, a, b)
    [] opcode = "LITERAL" -> expr_literal(va[1])
    [] opcode = "UNOP" -> expr_unaryop(va[1].i, a)
    [] opcode = "CAST" -> expr_cast(a, STypes[va[2].i])
    [] opcode = "UNREDUCE" -> expr_reduce(a, va[1].i)
    [] opcode = "NUREDUCE" -> expr_reduce_nullary(va[1].i)
    [] opcode = "STRINGFN" -> expr_string_fn(va[1].i, a)

\* The positions of va that each case passes to to_base_expr, in call order.
subexpr_args(opcode) ==
  CASE opcode = "BINOP" -> <<2, 3>>
    [] opcode = "UNOP" -> <<2>>
    [] opcode = "CAST" -> <<1>>
    [] opcode = "UNREDUCE" -> <<2>>
    [] opcode = "STRINGFN" -> <<2>>
    [] OTHER -> <<>>

\* py::base_expr::m__init__(opcode, *va) on a fresh wrapper. expr is set to
\* nullptr, the argument count is checked, the subexpressions are released
\* from their wrappers in order (a unique_ptr already taken is destroyed if a
\* later conversion throws), and the node is built.
m__init__(h, px, opcode, va) ==
  IF opcode \notin exprCodes THEN InitResult(h, px, 0, NoError)
  ELSE
  LET chk == check_args_count(va, args_count(opcode))
      sub == subexpr_args(opcode)
  IN IF chk.err # "none" THEN InitResult(h, px, 0, chk)
     ELSE IF Len(sub) = 0
     THEN LET c == NewCell(h)
          IN InitResult([h EXCEPT ![c] = new_expr(opcode, va, 0, 0)], px, c, NoError)
     ELSE
     LET a == to_base_expr(px, va[sub[1]])
     IN IF a.err # "none" THEN InitResult(h, px, 0, RaiseTypeError)
        ELSE IF Len(sub) = 1
        THEN LET c == NewCell(h)
             IN InitResult([h EXCEPT ![c] = new_expr(opcode, va, a.ptr, 0)],
                           a.px, c, NoError)
        ELSE
        LET b == to_base_expr(a.px, va[sub[2]])
        IN IF b.err # "none"
           THEN InitResult(delete_expr(h, a.ptr), a.px, 0, RaiseTypeError)
           ELSE LET c == NewCell(h)
                IN InitResult([h EXCEPT ![c] = new_expr(opcode, va, a.ptr, b.ptr)],
                              b.px, c, NoError)

\* ------------------------------------------------------------------ state
\* heap:      the expression nodes, by address (FreeNode: no node there)
\* pyexpr:    the `expr` pointer of each py::base_expr wrapper (0: nullptr)
\* wf:        the workframe the caller currently holds
\* cached_wf: history: the workframe a node's col_id was cached against
\* ret:       the last call made and what it returned or raised

NoWorkframe == Workframe(<<>>, FALSE, <<>>, {}, 0, FALSE)

NoRet ==
  [op |-> "", node |-> 0, again |-> FALSE, err |-> "none", msg |-> "",
   st |-> "", mode |-> 0,
   col |-> NullColumn, res |-> 0, neg |-> FALSE, opcode |-> "", nargs |-> 0,
   expected |-> 0, received |-> 0]

EmptyHeap == [n \in NodeIds |-> FreeNode]

\* Trees made of the node classes defined in this file only.
Modelled(h, n) ==
  \A m \in Subtree(h, n) : h[m].kind \notin {"reduce", "string_fn"}

\* What a build may do where the code's behaviour is undefined, or where only
\* an xassert (compiled out of release builds) stands before it.
Errs(err) ==
  IF err = "AssertionError" THEN {"AssertionError", "UB"} ELSE {err}

\* A caller takes a workframe from the set S.
NewWorkframe(S) ==
  /\ \E w \in S \ {wf} : wf' = w
  /\ ret' = [NoRet EXCEPT !.op = "workframe"]
  /\ UNCHANGED <<heap, pyexpr, cached_wf>>

\* expr->resolve(wf) on the tree rooted at n.
Resolve(n) ==
  /\ n \in Roots(heap) /\ Modelled(heap, n)
  /\ \E o \in {resolve(heap, n, wf)} :
        /\ heap' = o.h
        /\ cached_wf' =
             [m \in NodeIds |->
                IF heap[m].col_id = NoCol /\ o.h[m].col_id # NoCol
                THEN wf ELSE cached_wf[m]]
        /\ \E e \in Errs(o.err) :
           \E s \in (IF e = "UB" THEN STypeSet ELSE {o.st}) :
             ret' = [NoRet EXCEPT !.op = "resolve", !.node = n,
                                  !.again = (ret.op = "resolve" /\ ret.node = n),
                                  !.err = e, !.msg = o.msg, !.st = s]
  /\ UNCHANGED <<pyexpr, wf>>

\* expr->get_groupby_mode(wf) on the tree rooted at n.
GetGroupbyMode(n) ==
  /\ n \in Roots(heap) /\ Modelled(heap, n)
  /\ \E o \in {get_groupby_mode(heap, n, wf)} :
        \E m \in (IF o.err = "UB" THEN {GtoONE, GtoALL} ELSE {o.mode}) :
          ret' = [NoRet EXCEPT !.op = "get_groupby_mode", !.node = n,
                               !.err = o.err, !.mode = m]
  /\ UNCHANGED <<heap, pyexpr, wf, cached_wf>>

\* expr->evaluate_eager(wf) on the tree rooted at n.
EvaluateEager(n) ==
  /\ n \in Roots(heap) /\ Modelled(heap, n)
  /\ \E o \in {evaluate_eager(heap, n, wf)} :
        ret' = [NoRet EXCEPT !.op = "evaluate_eager", !.node = n,
                             !.err = o.err, !.col = o.col]
  /\ UNCHANGED <<heap, pyexpr, wf, cached_wf>>

\* expr->is_negated_expr(), and expr->get_negated_expr() whatever it answered.
GetNegatedExpr(n) ==
  /\ n \in Roots(heap)
  /\ \E o \in {get_negated_expr(heap, n)} :
        /\ heap' = o.h
        /\ ret' = [NoRet EXCEPT !.op = "get_negated_expr", !.node = n,
                                !.neg = is_negated_expr(heap[n]), !.res = o.res]
  /\ UNCHANGED <<pyexpr, wf, cached_wf>>

\* base_expr(opcode, *va) from Python. The wrapper survives only if __init__
\* returned; a heap cell must be free for the node.
MInit(opcode, va) ==
  /\ \E n \in NodeIds : heap[n].kind = "free"
  /\ Len(pyexpr) < MaxNodes
  /\ \E o \in {m__init__(heap, pyexpr, opcode, va)} :
        /\ heap' = o.h
        /\ pyexpr' = IF o.err = "none" THEN Append(o.px, o.node) ELSE o.px
        /\ cached_wf' =
             [m \in NodeIds |->
                IF o.h[m].kind = "free" THEN NoWorkframe ELSE cached_wf[m]]
        /\ ret' = [NoRet EXCEPT !.op = "init", !.node = o.node, !.err = o.err,
                                !.opcode = opcode, !.nargs = Len(va),
                                !.expected = o.expected,
                                !.received = o.received]
  /\ UNCHANGED wf

\* ------------------------------------------------------------------ SpecRules
\* The rule tables: an operator node over column references into a frame that
\* has one column of every stype, resolved by a caller.
RulesWorkframe == Workframe(<<Frame(Len(STypes))>>, FALSE, <<>>, {}, 3, FALSE)

RulesHeaps ==
  { [n \in NodeIds |->
       CASE n = 1 -> expr_column(0, PyInt(i))
         [] n = 2 -> expr_column(0, PyInt(j))
         [] n = 3 -> expr_binaryop(op, 1, 2)
         [] OTHER -> FreeNode]
    : i \in 0..(Len(STypes) - 1), j \in 0..(Len(STypes) - 1), op \in BiopCodes }
  \cup
  { [n \in NodeIds |->
       CASE n = 1 -> expr_column(0, PyInt(i))
         [] n = 2 -> expr_unaryop(op, 1)
         [] OTHER -> FreeNode]
    : i \in 0..(Len(STypes) - 1), op \in UnopCodes }

RulesInit ==
  /\ heap \in RulesHeaps
  /\ pyexpr = [i \in 1..3 |-> IF i \in Roots(heap) THEN i ELSE 0]
  /\ wf = RulesWorkframe
  /\ cached_wf = [n \in NodeIds |-> NoWorkframe]
  /\ ret = NoRet

RulesNext == \E n \in NodeIds : Resolve(n)

SpecRules == RulesInit /\ [][RulesNext]_vars

\* The stype an operand of the node last called resolves to.
OperandSType(c) == resolve(heap, c, wf).st
LhsSType == OperandSType(heap[ret.node].lhs)
RhsSType == OperandSType(heap[ret.node].rhs)
ArgSType == OperandSType(heap[ret.node].arg)

\* The last call was resolve on a binary operator node whose operator is one of ops.
ResolvedBinop(ops) ==
  /\ ret.op = "resolve"
  /\ heap[ret.node].kind = "binaryop"
  /\ heap[ret.node].op \in {biop(o) : o \in ops}

\* The later of two stypes in the order the specification declares.
DeclaredMax(s1, s2) ==
  LET pos(s) == CHOOSE i \in 1..Len(STypes) : STypes[i] = s
  IN IF pos(s1) < pos(s2) THEN s2 ELSE s1

\* C1: for every pair of numeric stypes and every op in PLUS, MINUS, MULTIPLY,
\* POWER, resolve on the binary operator returns max(s1, s2) and does not raise.
C1_ArithPromotion ==
  (ResolvedBinop({"PLUS", "MINUS", "MULTIPLY", "POWER"})
   /\ LhsSType \in numeric_stypes /\ RhsSType \in numeric_stypes)
  => (ret.err = "none" /\ ret.st = DeclaredMax(LhsSType, RhsSType))

C1_Witness ==
  /\ ResolvedBinop({"POWER"})
  /\ LhsSType = "FLOAT32" /\ RhsSType = "INT8"
  /\ ret.err = "none" /\ ret.st = "FLOAT32"

\* C2 as claimed: INT_DIVIDE and MODULO return max(s1, s2) for every pair of
\* numeric stypes, the shifts for every pair of integer stypes.
C2_AsClaimed ==
  /\ (ResolvedBinop({"INT_DIVIDE", "MODULO"})
      /\ LhsSType \in numeric_stypes /\ RhsSType \in numeric_stypes)
     => (ret.err = "none" /\ ret.st = DeclaredMax(LhsSType, RhsSType))
  /\ (ResolvedBinop({"LEFT_SHIFT", "RIGHT_SHIFT"})
      /\ LhsSType \in integer_stypes /\ RhsSType \in integer_stypes)
     => (ret.err = "none" /\ ret.st = DeclaredMax(LhsSType, RhsSType))

\* C2 amended: INT_DIVIDE, MODULO, LEFT_SHIFT and RIGHT_SHIFT return
\* max(s1, s2) for every pair of integer stypes INT8..INT64; for a pair of
\* numeric stypes one of which is BOOL, FLOAT32 or FLOAT64 they raise TypeError.
C2_IntegerPromotion ==
  (ResolvedBinop({"INT_DIVIDE", "MODULO", "LEFT_SHIFT", "RIGHT_SHIFT"})
   /\ LhsSType \in numeric_stypes /\ RhsSType \in numeric_stypes)
  => IF LhsSType \in integer_stypes /\ RhsSType \in integer_stypes
     THEN ret.err = "none" /\ ret.st = DeclaredMax(LhsSType, RhsSType)
     ELSE ret.err = "TypeError"

C2_Witness ==
  /\ ResolvedBinop({"MODULO"})
  /\ LhsSType = "INT16" /\ RhsSType = "INT64"
  /\ ret.err = "none" /\ ret.st = "INT64"

\* C3: resolve on UnaryOp(ISNA) returns BOOL, without raising, for an operand
\* of every stype of the enumeration, OBJECT included.
C3_IsnaEveryStype ==
  (ret.op = "resolve" /\ heap[ret.node].kind = "unaryop"
   /\ heap[ret.node].op = unop("ISNA") /\ ArgSType \in STypeSet)
  => (ret.err = "none" /\ ret.st = "BOOL")

\* C4: on two string operands (STR32 or STR64, in any combination) resolve
\* returns BOOL for REL_EQ and REL_NE and raises TypeError for every other
\* binary operator; and resolve raises TypeError exactly when the (operator,
\* left stype, right stype) key is absent from the rule table.
C4_StringRules ==
  /\ (ResolvedBinop({Biops[c] : c \in BiopCodes})
      /\ LhsSType \in string_types /\ RhsSType \in string_types)
     => IF heap[ret.node].op \in {biop("REL_EQ"), biop("REL_NE")}
        THEN ret.err = "none" /\ ret.st = "BOOL"
        ELSE ret.err = "TypeError"
  /\ ResolvedBinop({Biops[c] : c \in BiopCodes})
     => (ret.err = "TypeError"
         <=> id_binop(heap[ret.node].op, LhsSType, RhsSType)
               \notin {e[1] : e \in binop_entries})

C4_Witness ==
  /\ ResolvedBinop({"PLUS"})
  /\ LhsSType = "STR32" /\ RhsSType = "STR32"
  /\ ret.err = "TypeError"

C4_WitnessEq ==
  /\ ResolvedBinop({"REL_EQ"})
  /\ LhsSType = "STR32" /\ RhsSType = "STR64"
  /\ ret.err = "none" /\ ret.st = "BOOL"

\* ------------------------------------------------------------------ SpecColumn
\* Column references, alone and under a cast or a binary operator, resolved
\* and evaluated by callers that hold one workframe after another.
ColumnWorkframes ==
  { Workframe(<<Frame(MaxCols)>>, FALSE, <<>>, {}, 3, FALSE),
    Workframe(<<Frame(1), Frame(MaxCols)>>, TRUE, <<0, 1, 3>>, {0}, 3, TRUE),
    Workframe(<<Frame(0)>>, FALSE, <<>>, {}, 0, FALSE) }

\* Selectors: every integer from one below to one above the valid range of
\* the widest frame, a name in the frames, a name in none, and None.
ColumnSelectors ==
  {PyInt(k) : k \in (-(MaxCols + 1))..MaxCols}
  \cup {PyStr(ColNames[1]), PyStr("Z"), PyNone}

IntSelectors == {c \in ColumnSelectors : c.t = "int"}

\* Frame ids: the frames of the workframes and one beyond them.
FrameIds == 0..2

ColumnHeaps ==
  { [n \in NodeIds |->
       IF n = 1 THEN expr_column(f, c) ELSE FreeNode]
    : f \in FrameIds, c \in ColumnSelectors }
  \cup
  { [n \in NodeIds |->
       CASE n = 1 -> expr_column(f, c)
         [] n = 2 -> expr_cast(1, flt64)
         [] OTHER -> FreeNode]
    : f \in FrameIds, c \in IntSelectors }
  \cup
  { [n \in NodeIds |->
       CASE n = 1 -> expr_column(0, c1)
         [] n = 2 -> expr_column(f, c2)
         [] n = 3 -> expr_binaryop(biop("PLUS"), 1, 2)
         [] OTHER -> FreeNode]
    : f \in FrameIds, c1 \in IntSelectors, c2 \in IntSelectors }

ColumnInit ==
  /\ heap \in ColumnHeaps
  /\ pyexpr = [i \in 1..3 |-> IF i \in Roots(heap) THEN i ELSE 0]
  /\ wf \in ColumnWorkframes
  /\ cached_wf = [n \in NodeIds |-> NoWorkframe]
  /\ ret = NoRet

ColumnNext ==
  \/ NewWorkframe(ColumnWorkframes)
  \/ \E n \in NodeIds : Resolve(n)
  \/ \E n \in NodeIds : GetGroupbyMode(n)
  \/ \E n \in NodeIds : EvaluateEager(n)

SpecColumn == ColumnInit /\ [][ColumnNext]_vars

\* The index a selector k designates in a frame of n columns, Python-style.
PythonIndex(k, n) == IF k >= 0 THEN k ELSE k + n

\* C5: resolve on a ColumnRef with an integer selector k, not yet resolved or
\* resolved against this workframe: if frame_id is not less than the frame
\* count it raises ValueError for the frame, whatever the selector; else, on a
\* frame of n columns, if -n <= k < n the index cached and used is k (k >= 0)
\* or k + n (k < 0), and if k < -n or k >= n it raises ValueError.
C5_IntSelector ==
  [][(/\ ret'.op = "resolve"
      /\ heap[ret'.node].kind = "column"
      /\ heap[ret'.node].sel.t = "int"
      /\ (heap[ret'.node].col_id = NoCol \/ cached_wf[ret'.node] = wf))
     => LET nd == heap[ret'.node]
            k == nd.sel.i
        IN IF nd.frame_id >= Len(wf.frames)
           THEN /\ ret'.err = "ValueError" /\ ret'.msg = "frame"
                /\ heap'[ret'.node].col_id = NoCol
           ELSE LET n == Len(wf.frames[nd.frame_id + 1])
                IN IF -n <= k /\ k < n
                   THEN /\ ret'.err = "none"
                        /\ heap'[ret'.node].col_id = PythonIndex(k, n)
                        /\ ret'.st = wf.frames[nd.frame_id + 1][PythonIndex(k, n) + 1].stype
                   ELSE /\ ret'.err = "ValueError" /\ ret'.msg = "index"
                        /\ heap'[ret'.node].col_id = NoCol]_vars

\* selector -1 on the last column of the widest frame: the index is n - 1.
C5_Witness ==
  /\ ret.op = "resolve" /\ ret.err = "none"
  /\ heap[ret.node].kind = "column"
  /\ heap[ret.node].sel = PyInt(-1)
  /\ Len(wf.frames[heap[ret.node].frame_id + 1]) = MaxCols
  /\ heap[ret.node].col_id = MaxCols - 1

C5_WitnessRaise ==
  /\ ret.op = "resolve" /\ ret.err = "ValueError" /\ ret.msg = "index"
  /\ heap[ret.node].kind = "column"
  /\ heap[ret.node].sel = PyInt(MaxCols)
  /\ Len(wf.frames[heap[ret.node].frame_id + 1]) = MaxCols

\* C6: resolve is idempotent: a second resolve of the same tree against the
\* same workframe returns (or raises) what the first did and changes no node,
\* so evaluate_eager gives the same column after one resolve as after two.
C6_ResolveIdempotent ==
  [][(/\ ret.op = "resolve" /\ ret.err \in {"none", "TypeError", "ValueError"}
      /\ ret'.op = "resolve" /\ ret'.node = ret.node)
     => /\ ret'.err = ret.err /\ ret'.st = ret.st
        /\ heap' = heap
        /\ evaluate_eager(heap', ret.node, wf') = evaluate_eager(heap, ret.node, wf)]_vars

\* a tree with a column reference, resolved twice in a row.
C6_Witness ==
  /\ ret.op = "resolve" /\ ret.again /\ ret.err = "none"
  /\ heap[ret.node].kind = "binaryop"
  /\ \A c \in Children(heap[ret.node]) :
       heap[c].kind = "column" /\ heap[c].col_id # NoCol /\ heap[c].sel.i < 0

\* The column references of the tree the last call was made on.
CalledColumns ==
  IF ret.op \in {"resolve", "get_groupby_mode", "evaluate_eager"}
  THEN {n \in Subtree(heap, ret.node) : heap[n].kind = "column"}
  ELSE {}

\* C7 as claimed: once resolved, the cached index is within the column count
\* of the frame that frame_id designates in the workframe of each later call,
\* also when that is another workframe.
C7_AsClaimed ==
  \A n \in CalledColumns :
    heap[n].col_id # NoCol
    => /\ heap[n].frame_id < Len(wf.frames)
       /\ 0 <= heap[n].col_id
       /\ heap[n].col_id < Len(wf.frames[heap[n].frame_id + 1])

\* C7 amended: once resolved, the cached index stays, through any sequence of
\* resolve, get_groupby_mode and evaluate_eager calls, within the column count
\* of the frame that frame_id designates in the workframe it was resolved
\* against (not in the workframe of a later call made against another one); a
\* resolve that raised ValueError leaves the index unresolved.
C7_CachedIndexInRange ==
  /\ \A n \in NodeIds :
       (heap[n].kind = "column" /\ heap[n].col_id # NoCol)
       => /\ cached_wf[n] # NoWorkframe
          /\ heap[n].frame_id < Len(cached_wf[n].frames)
          /\ 0 <= heap[n].col_id
          /\ heap[n].col_id < Len(cached_wf[n].frames[heap[n].frame_id + 1])
  /\ (ret.op = "resolve" /\ heap[ret.node].kind = "column"
      /\ ret.err = "ValueError")
     => heap[ret.node].col_id = NoCol

\* a resolved column reference evaluated by a caller holding another workframe.
C7_Witness ==
  /\ ret.op = "evaluate_eager"
  /\ heap[ret.node].kind = "column"
  /\ heap[ret.node].col_id # NoCol
  /\ cached_wf[ret.node] # wf

\* ------------------------------------------------------------------ SpecReduce
\* The COUNT reduction, resolved and evaluated under workframes with every
\* grouping of up to MaxGroups groups of up to MaxGroupSize rows, and under
\* ungrouped workframes of up to MaxGroups * MaxGroupSize rows.
ReduceWorkframes ==
  { Workframe(<<Frame(1)>>, TRUE, o, {0}, o[Len(o)], FALSE)
    : o \in UNION {OffsetSeqs(g) : g \in 0..MaxGroups} }
  \cup
  { Workframe(<<Frame(1)>>, FALSE, <<>>, {}, r, FALSE)
    : r \in 0..(MaxGroups * MaxGroupSize) }

ReduceInit ==
  /\ heap = [n \in NodeIds |-> IF n = 1 THEN expr_reduce_nullary(0) ELSE FreeNode]
  /\ pyexpr = <<1>>
  /\ wf \in ReduceWorkframes
  /\ cached_wf = [n \in NodeIds |-> NoWorkframe]
  /\ ret = NoRet

ReduceNext ==
  \/ NewWorkframe(ReduceWorkframes)
  \/ \E n \in NodeIds : Resolve(n)
  \/ \E n \in NodeIds : GetGroupbyMode(n)
  \/ \E n \in NodeIds : EvaluateEager(n)

SpecReduce == ReduceInit /\ [][ReduceNext]_vars

\* The last call was made on a NullaryReduce(COUNT) node.
CalledCount(op) ==
  /\ ret.op = op
  /\ heap[ret.node].kind = "reduce_nullary"
  /\ heap[ret.node].op = 0

\* C8: NullaryReduce(COUNT): resolve returns INT64 with or without a grouping;
\* evaluate_eager under a grouping of g groups with boundary offsets o[0..g]
\* returns an INT32 column of length g whose i-th entry is o[i+1] - o[i], and
\* without a grouping an INT64 column of length 1 holding the row count.
C8_Count ==
  /\ CalledCount("resolve") => (ret.err = "none" /\ ret.st = "INT64")
  /\ CalledCount("evaluate_eager") =>
       /\ ret.err = "none"
       /\ IF wf.has_groupby
          THEN /\ ret.col.stype = "INT32"
               /\ Len(ret.col.data) = Len(wf.offsets) - 1
               /\ \A i \in 0..(Len(wf.offsets) - 2) :
                    ret.col.data[i + 1] = wf.offsets[i + 2] - wf.offsets[i + 1]
          ELSE /\ ret.col.stype = "INT64"
               /\ ret.col.data = <<wf.nrows>>

\* offsets [0, 3, 7, 10] give [3, 4, 3].
C8_Witness ==
  /\ CalledCount("evaluate_eager")
  /\ wf.has_groupby /\ wf.offsets = <<0, 3, 7, 10>>
  /\ ret.col = Col("INT32", "new_data_column", <<3, 4, 3>>)

\* 7 ungrouped rows give [7].
C8_WitnessUngrouped ==
  /\ CalledCount("evaluate_eager")
  /\ ~wf.has_groupby /\ wf.nrows = 7
  /\ ret.col = Col("INT64", "new_data_column", <<7>>)

\* ------------------------------------------------------------------ Spec
\* The factory: Python builds expression trees bottom-up through
\* base_expr(opcode, *args), with well-formed and malformed argument lists,
\* and callers use the trees.
FactoryWorkframe ==
  Workframe(<<Frame(MaxCols)>>, TRUE, <<0, 1, 3>>, {0}, 3, FALSE)

\* The arguments that may stand for a subexpression: the wrappers made so far
\* (emptied ones included) and an object that is no base_expr.
SubexprArgs == {PyExpr(w) : w \in 1..Len(pyexpr)} \cup {PyNone}

\* Argument lists of the right length for each opcode.
WellFormedArgs(opcode) ==
  CASE opcode = "COL" ->
         {<<PyInt(0), PyInt(-1)>>}
    [] opcode = "BINOP" ->
         {<<PyInt(biop(o)), x, y>> :
            o \in {"MINUS"}, x \in SubexprArgs, y \in SubexprArgs}
    [] opcode = "LITERAL" -> {<<PyStr("a")>>}
    [] opcode = "UNOP" ->
         {<<PyInt(unop(o)), x>> : o \in {"MINUS", "ISNA"}, x \in SubexprArgs}
    [] opcode = "CAST" -> {<<x, PyInt(STypeCode(flt64))>> : x \in SubexprArgs}
    [] opcode = "UNREDUCE" -> {<<PyInt(1), x>> : x \in SubexprArgs}
    [] opcode = "NUREDUCE" -> {<<PyInt(0)>>}
    [] opcode = "STRINGFN" -> {<<PyInt(1), x, PyNone>> : x \in SubexprArgs}
    [] OTHER -> {<<>>}

\* Lists of the wrong length: a well-formed list with its last argument
\* missing, or (for the lists that name one subexpression throughout) with
\* one argument more.
MalformedArgs(opcode) ==
  {SubSeq(va, 1, Len(va) - 1) : va \in WellFormedArgs(opcode)}
  \cup {Append(va, PyNone) :
          va \in {l \in WellFormedArgs(opcode) :
                    \A i, j \in 1..Len(l) :
                      (l[i].t = "expr" /\ l[j].t # "int") => l[i] = l[j]}}

Init ==
  /\ heap = EmptyHeap
  /\ pyexpr = <<>>
  /\ wf = FactoryWorkframe
  /\ cached_wf = [n \in NodeIds |-> NoWorkframe]
  /\ ret = NoRet

Next ==
  \/ \E opcode \in exprCodes :
       \E va \in WellFormedArgs(opcode) \cup MalformedArgs(opcode) :
         MInit(opcode, va)
  \/ \E n \in NodeIds : GetNegatedExpr(n)

Spec == Init /\ [][Next]_vars

\* C9: is_negated_expr is true exactly for a unary node whose operator is
\* MINUS. get_negated_expr on such a node returns the operand the node held,
\* that operand and every other node unmodified, and leaves the unary node
\* without an operand; on every other node it returns an empty result and
\* changes no node.
C9_NegatedExpr ==
  [][ret'.op = "get_negated_expr" =>
        LET n == ret'.node
            nd == heap[n]
        IN /\ ret'.neg = (nd.kind = "unaryop" /\ nd.op = unop("MINUS"))
           /\ IF ret'.neg
              THEN /\ ret'.res = nd.arg
                   /\ heap'[n] = [nd EXCEPT !.arg = 0]
                   /\ \A m \in NodeIds \ {n} : heap'[m] = heap[m]
              ELSE /\ ret'.res = 0
                   /\ heap' = heap]_vars

\* A negated node gave its operand away: the operand is still a node, owned
\* by no one but the caller.
C9_Witness ==
  /\ ret.op = "get_negated_expr" /\ ret.neg /\ ret.res # 0
  /\ heap[ret.node].kind = "unaryop" /\ heap[ret.node].arg = 0
  /\ heap[ret.res].kind # "free" /\ ret.res \in Roots(heap)

\* A binary MINUS was asked and kept both operands.
C9_WitnessBinaryMinus ==
  /\ ret.op = "get_negated_expr" /\ ~ret.neg /\ ret.res = 0
  /\ heap[ret.node].kind = "binaryop" /\ heap[ret.node].op = biop("MINUS")
  /\ heap[ret.node].lhs # 0 /\ heap[ret.node].rhs # 0

\* The argument counts the interface is said to require, by node kind.
ClaimedArgsCount ==
  [COL |-> 2, BINOP |-> 3, LITERAL |-> 1, UNOP |-> 2, CAST |-> 2,
   NUREDUCE |-> 1, STRINGFN |-> 3]

\* C10: a construction with another number of additional arguments than the
\* kind requires raises TypeError reporting the expected and the received
\* count, builds no node and releases no wrapper; with the required number no
\* count error is raised.
C10_ArgsCount ==
  [][(ret'.op = "init" /\ ret'.opcode \in DOMAIN ClaimedArgsCount) =>
        LET k == ClaimedArgsCount[ret'.opcode]
        IN IF ret'.nargs # k
           THEN /\ ret'.err = "TypeError"
                /\ ret'.expected = k /\ ret'.received = ret'.nargs
                /\ ret'.node = 0
                /\ heap' = heap /\ pyexpr' = pyexpr
           ELSE ret'.expected = 0 /\ ret'.received = 0]_vars

\* A BinaryOp was asked for with 2 arguments while a wrapper held a node, and
\* the wrapper holds it still.
C10_Witness ==
  /\ ret.op = "init" /\ ret.opcode = "BINOP" /\ ret.nargs = 2
  /\ ret.err = "TypeError" /\ ret.expected = 3 /\ ret.received = 2
  /\ \E w \in 1..Len(pyexpr) : pyexpr[w] # 0

\* One argument too many was refused as well.
C10_WitnessMore ==
  /\ ret.op = "init" /\ ret.opcode = "UNOP" /\ ret.nargs = 3
  /\ ret.err = "TypeError" /\ ret.expected = 2 /\ ret.received = 3
  /\ \E w \in 1..Len(pyexpr) : pyexpr[w] # 0

\* The operand fields a node of each class holds.
OperandFields(nd) ==
  CASE nd.kind = "binaryop" -> <<nd.lhs, nd.rhs>>
    [] nd.kind \in {"unaryop", "cast", "reduce", "string_fn"} -> <<nd.arg>>
    [] OTHER -> <<>>

\* C11: every subexpression argument of a construction that succeeded was
\* accepted as an expression node: each operand of the BinaryOp, UnaryOp,
\* Cast, NaryReduce or StringFn node just built is a non-empty node, also
\* when a wrapper is passed that was passed to a construction before.
C11_ChildrenNonEmpty ==
  (ret.op = "init" /\ ret.err = "none" /\ ret.node # 0)
  => LET ops == OperandFields(heap[ret.node])
     IN \A i \in 1..Len(ops) : ops[i] # 0 /\ heap[ops[i]].kind # "free"

\* The part of C11 on sharing: no node is an operand of two nodes, nor twice
\* an operand of one, and no wrapper holds a node that a parent owns.
C11_SingleOwner ==
  /\ \A n \in NodeIds : \A m \in NodeIds \ {n} :
       Children(heap[n]) \cap Children(heap[m]) = {}
  /\ \A n \in NodeIds :
       heap[n].kind = "binaryop" /\ heap[n].lhs # 0 => heap[n].lhs # heap[n].rhs
  /\ \A w \in 1..Len(pyexpr) :
       pyexpr[w] # 0 => pyexpr[w] \in Roots(heap)
  /\ \A v, w \in 1..Len(pyexpr) :
       (v # w /\ pyexpr[v] # 0) => pyexpr[v] # pyexpr[w]

\* ------------------------------------------------------------------ SpecGroupby
\* Trees of up to three nodes over column references into two frames,
\* literals and COUNT, resolved and asked for their groupby mode by callers
\* that hold a workframe grouped by one of the columns of frame 0, or an
\* ungrouped one.
GroupbyWorkframes ==
  { Workframe(<<Frame(MaxCols), Frame(MaxCols)>>, TRUE, <<0, 1, 3>>, {g}, 3, FALSE)
    : g \in 0..(MaxCols - 1) }
  \cup { Workframe(<<Frame(MaxCols), Frame(MaxCols)>>, FALSE, <<>>, {}, 3, FALSE) }

GroupbyLeaves ==
  {expr_column(f, PyInt(k)) : f \in 0..1, k \in 0..(MaxCols - 1)}
  \cup {expr_literal(PyInt(1)), expr_reduce_nullary(0)}

\* expr_unaryop or expr_cast over node a.
GroupbyUnaries(a) == {expr_unaryop(unop("MINUS"), a), expr_cast(a, flt64)}

GroupbyHeaps ==
  { [n \in NodeIds |-> IF n = 1 THEN l ELSE FreeNode] : l \in GroupbyLeaves }
  \cup
  { [n \in NodeIds |->
       CASE n = 1 -> l [] n = 2 -> u [] OTHER -> FreeNode]
    : l \in GroupbyLeaves, u \in GroupbyUnaries(1) }
  \cup
  { [n \in NodeIds |->
       CASE n = 1 -> l [] n = 2 -> u [] n = 3 -> v [] OTHER -> FreeNode]
    : l \in GroupbyLeaves, u \in GroupbyUnaries(1), v \in GroupbyUnaries(2) }
  \cup
  { [n \in NodeIds |->
       CASE n = 1 -> l [] n = 2 -> r
         [] n = 3 -> expr_binaryop(biop("PLUS"), 1, 2)
         [] OTHER -> FreeNode]
    : l \in GroupbyLeaves, r \in GroupbyLeaves }

GroupbyInit ==
  /\ heap \in GroupbyHeaps
  /\ pyexpr = [i \in 1..3 |-> IF i \in Roots(heap) THEN i ELSE 0]
  /\ wf \in GroupbyWorkframes
  /\ cached_wf = [n \in NodeIds |-> NoWorkframe]
  /\ ret = NoRet

GroupbyNext ==
  \/ NewWorkframe(GroupbyWorkframes)
  \/ \E n \in NodeIds : Resolve(n)
  \/ \E n \in NodeIds : GetGroupbyMode(n)

SpecGroupby == GroupbyInit /\ [][GroupbyNext]_vars

\* The names the interface gives the modes.
PerGroup == GtoONE
PerRow == GtoALL

\* The mode the rule gives a ColumnRef under the caller's workframe.
ClaimedColumnMode(nd) ==
  IF nd.frame_id = 0 /\ wf.has_groupby /\ nd.col_id \in wf.group_cols
  THEN PerGroup ELSE PerRow

\* The mode the rules give the tree rooted at n.
RECURSIVE ClaimedMode(_)
ClaimedMode(n) ==
  LET nd == heap[n]
  IN CASE nd.kind \in {"literal", "reduce_nullary"} -> PerGroup
       [] nd.kind = "column" -> ClaimedColumnMode(nd)
       [] nd.kind \in {"unaryop", "cast"} -> ClaimedMode(nd.arg)
       [] nd.kind = "binaryop" ->
            LET l == ClaimedMode(nd.lhs)
                r == ClaimedMode(nd.rhs)
            IN IF l < r THEN r ELSE l

\* get_groupby_mode was called on a tree whose column references are resolved.
CalledGroupbyMode ==
  /\ ret.op = "get_groupby_mode"
  /\ \A c \in Subtree(heap, ret.node) :
       heap[c].kind = "column" => heap[c].col_id # NoCol

\* C12: on a resolved tree of ColumnRef, Literal, NullaryReduce, UnaryOp, Cast
\* and BinaryOp nodes get_groupby_mode returns the mode the rules give
\* (Literal and NullaryReduce PerGroup; ColumnRef PerGroup only for frame 0,
\* an active grouping and a grouping key column; UnaryOp and Cast their
\* operand's mode; BinaryOp the maximum under PerGroup < PerRow), and the
\* tree is PerRow if and only if one of its ColumnRef leaves is.
C12_GroupbyMode ==
  CalledGroupbyMode
  => /\ ret.err = "none"
     /\ ret.mode = ClaimedMode(ret.node)
     /\ (ret.mode = PerRow) <=>
          \E c \in Subtree(heap, ret.node) :
            heap[c].kind = "column" /\ ClaimedColumnMode(heap[c]) = PerRow

\* A BinaryOp over a grouping key column and a column that is not one is PerRow.
C12_Witness ==
  /\ CalledGroupbyMode
  /\ heap[ret.node].kind = "binaryop"
  /\ ClaimedColumnMode(heap[heap[ret.node].lhs]) = PerGroup
  /\ heap[heap[ret.node].rhs].kind = "column"
  /\ ClaimedColumnMode(heap[heap[ret.node].rhs]) = PerRow
  /\ ret.mode = PerRow

\* A reference to column g of frame 1, g being the grouping key of frame 0, is PerRow.
C12_WitnessOtherFrame ==
  /\ CalledGroupbyMode
  /\ heap[ret.node].kind = "cast"
  /\ heap[heap[ret.node].arg].kind = "column"
  /\ heap[heap[ret.node].arg].frame_id = 1
  /\ wf.has_groupby /\ heap[heap[ret.node].arg].col_id \in wf.group_cols
  /\ ret.mode = PerRow

\* A BinaryOp over a grouping key column and a literal is PerGroup.
C12_WitnessPerGroup ==
  /\ CalledGroupbyMode
  /\ heap[ret.node].kind = "binaryop"
  /\ heap[heap[ret.node].lhs].kind = "column"
  /\ heap[heap[ret.node].rhs].kind = "literal"
  /\ ret.mode = PerGroup

====
